---- MODULE Spec2Model ----
(***************************************************************************)
(* A model of the agent pipeline of the SDK: the policy engine             *)
(* (src/src/agent/policy.ts) and the execution coordinator                 *)
(* (ClaudeAgent.execute in src/src/agent/claudeAgent.ts) together with the *)
(* await points of the ledger and swap collaborators it calls              *)
(* (transferSol in src/src/tokens.ts, getJupiterQuote / executeJupiterSwap *)
(* in src/unnamed/part_000).                                               *)
(*                                                                         *)
(* Strings of the program are sequences of one-character strings, so that  *)
(* String.prototype.trim and BigInt(string) are computed, not assumed.     *)
(* An optional field of a TypeScript object is a record field that is      *)
(* present or not ("f" \in DOMAIN r).  Action indices are 0-based as in    *)
(* the source; plan.actions[i] of the source is plan.actions[i + 1] here.  *)
(***************************************************************************)
EXTENDS Integers, Sequences, FiniteSets, TLC

VARIABLES
    opts,       \* ClaudeAgentOptions held by the agent: optional anthropic, policy, confirm
    plan,       \* the AgentPlan handed to validate / execute
    args,       \* the arguments of the proposePlan call: goal, optional maxActions
    pc,         \* position of the proposePlan / validate / execute call
    idx,        \* 0-based index of the action the for-of loop of execute is at
    stage,      \* 1-based index of the network call in flight, within the action's collaborator
    sigs,       \* the local result list of execute
    trace,      \* history of the calls made to the confirmation capability and the collaborators
    outcome     \* what the caller of proposePlan / validate / execute has received

vars == <<opts, plan, args, pc, idx, stage, sigs, trace, outcome>>

----------------------------------------------------------------------------
(* Bounds of the model. *)

\* longest plan drawn for an execute call
MaxPlanLen == 2
\* the value of maxTransferLamports / maxSwapAmount in the policies drawn
LimitM == 9
\* the value of maxSlippageBps in the policies drawn
LimitSlippage == 30

(* Program constants. *)

\* slippageBps passed to getJupiterQuote when the action carries none
DefaultSlippageBps == 50

----------------------------------------------------------------------------
(* Strings. *)

Space == " "
Digits == <<"0", "1", "2", "3", "4", "5", "6", "7", "8", "9">>

IsDigit(c) == \E d \in 1..10 : Digits[d] = c
DigitVal(c) == (CHOOSE d \in 1..10 : Digits[d] = c) - 1

RECURSIVE TrimStart(_)
TrimStart(s) ==
    IF s # <<>> /\ Head(s) = Space THEN TrimStart(Tail(s)) ELSE s

RECURSIVE TrimEnd(_)
TrimEnd(s) ==
    IF s # <<>> /\ s[Len(s)] = Space THEN TrimEnd(SubSeq(s, 1, Len(s) - 1)) ELSE s

\* String.prototype.trim
Trim(s) == TrimEnd(TrimStart(s))

\* String(n) for a natural number
RECURSIVE NatToStr(_)
NatToStr(n) ==
    IF n < 10 THEN <<Digits[n + 1]>>
    ELSE NatToStr(n \div 10) \o <<Digits[(n % 10) + 1]>>

RECURSIVE DecimalValue(_)
DecimalValue(s) ==
    IF s = <<>> THEN 0
    ELSE 10 * DecimalValue(SubSeq(s, 1, Len(s) - 1)) + DigitVal(s[Len(s)])

AllDigits(s) == s # <<>> /\ \A k \in 1..Len(s) : IsDigit(s[k])

\* BigInt(string): white space is trimmed, the empty string is 0n, an optional
\* sign may precede the decimal digits, anything else is a SyntaxError.
\* (No string of the model starts with 0x, 0o or 0b.)
BigInt(s) ==
    LET t == Trim(s) IN
    IF t = <<>> THEN [ok |-> TRUE, val |-> 0]
    ELSE IF Head(t) = "-" /\ AllDigits(Tail(t)) THEN [ok |-> TRUE, val |-> 0 - DecimalValue(Tail(t))]
    ELSE IF Head(t) = "+" /\ AllDigits(Tail(t)) THEN [ok |-> TRUE, val |-> DecimalValue(Tail(t))]
    ELSE IF AllDigits(t) THEN [ok |-> TRUE, val |-> DecimalValue(t)]
    ELSE [ok |-> FALSE, val |-> 0]

----------------------------------------------------------------------------
(* Policy engine: src/src/agent/policy.ts *)

Return(v) == [kind |-> "return", v |-> v]
Throw(e) == [kind |-> "throw", error |-> e]

SyntaxError == [name |-> "SyntaxError", from |-> "BigInt"]

\* `${path}.${field}` with path = `actions[${i}]`
FieldPath(i, field) == <<"actions", i, field>>

PolicyViolation(i, field, message) == [path |-> FieldPath(i, field), message |-> message]

\* !policy.f for an optional boolean f
FalsyMutant(policy, f) == f \in DOMAIN policy /\ ~policy[f]
Falsy(policy, f) == ~(f \in DOMAIN policy /\ policy[f])

\* new Set((list ?? []).map((s) => s.trim()))
TrimmedSet(policy, f) ==
    IF f \in DOMAIN policy THEN {Trim(policy[f][k]) : k \in 1..Len(policy[f])} ELSE {}

\* `lamports > policy.maxTransferLamports`, on bigints
ExceedsMutant(amount, limit) == amount >= limit
Exceeds(amount, limit) == amount > limit

\* `!allowed.has(value.trim())`
NotAllowlistedMutant(allowed, value) == ~(value \in allowed)
NotAllowlisted(allowed, value) == ~(Trim(value) \in allowed)

transferViolations(action, policy, i) ==
    (IF Falsy(policy, "allowAllTransfers")
        /\ NotAllowlisted(TrimmedSet(policy, "allowedRecipients"), action.to)
     THEN <<PolicyViolation(i, "to", "Recipient is not allowlisted")>>
     ELSE <<>>)

swapMintViolationsMutant(action, policy, i) ==
    IF Falsy(policy, "allowAllSwaps")
       /\ (NotAllowlisted(TrimmedSet(policy, "allowedMints"), action.inputMint)
           \/ NotAllowlisted(TrimmedSet(policy, "allowedMints"), action.outputMint))
    THEN <<PolicyViolation(i, "inputMint", "inputMint is not allowlisted")>>
    ELSE <<>>
swapMintViolations(action, policy, i) ==
    IF Falsy(policy, "allowAllSwaps")
    THEN (IF NotAllowlisted(TrimmedSet(policy, "allowedMints"), action.inputMint)
          THEN <<PolicyViolation(i, "inputMint", "inputMint is not allowlisted")>>
          ELSE <<>>)
         \o
         (IF NotAllowlisted(TrimmedSet(policy, "allowedMints"), action.outputMint)
          THEN <<PolicyViolation(i, "outputMint", "outputMint is not allowlisted")>>
          ELSE <<>>)
    ELSE <<>>

validateActionPolicy(action, policy, i) ==
    IF action.type = "transferSol" THEN
        LET v1 == transferViolations(action, policy, i)
            lamports == BigInt(action.lamports)
        IN  IF ~lamports.ok THEN Throw(SyntaxError)
            ELSE Return(v1 \o
                    (IF "maxTransferLamports" \in DOMAIN policy
                        /\ Exceeds(lamports.val, policy.maxTransferLamports)
                     THEN <<PolicyViolation(i, "lamports", "Transfer exceeds maxTransferLamports")>>
                     ELSE <<>>))
    ELSE IF action.type = "swapJupiter" THEN
        LET v1 == swapMintViolations(action, policy, i)
            amount == BigInt(action.amount)
        IN  IF ~amount.ok THEN Throw(SyntaxError)
            ELSE Return(v1 \o
                    (IF "maxSwapAmount" \in DOMAIN policy
                        /\ Exceeds(amount.val, policy.maxSwapAmount)
                     THEN <<PolicyViolation(i, "amount", "Swap exceeds maxSwapAmount")>>
                     ELSE <<>>)
                    \o
                    (IF "slippageBps" \in DOMAIN action /\ "maxSlippageBps" \in DOMAIN policy
                        /\ action.slippageBps > policy.maxSlippageBps
                     THEN <<PolicyViolation(i, "slippageBps", "slippageBps exceeds maxSlippageBps")>>
                     ELSE <<>>))
    ELSE Return(<<>>)

\* the loop of validatePlanPolicy from action i (0-based) on, v the list so far
RECURSIVE validateFromStopsEarly(_, _, _, _)
validateFromStopsEarly(p, policy, i, v) ==
    IF i >= Len(p.actions) \/ v # <<>> THEN Return(v)
    ELSE LET r == validateActionPolicy(p.actions[i + 1], policy, i)
         IN  IF r.kind = "throw" THEN r
             ELSE validateFromStopsEarly(p, policy, i + 1, v \o r.v)

RECURSIVE validateFrom(_, _, _, _)
validateFrom(p, policy, i, v) ==
    IF i >= Len(p.actions) THEN Return(v)
    ELSE LET r == validateActionPolicy(p.actions[i + 1], policy, i)
         IN  IF r.kind = "throw" THEN r
             ELSE validateFrom(p, policy, i + 1, v \o r.v)

validatePlanPolicy(p, policy) == validateFrom(p, policy, 0, <<>>)

\* ClaudeAgent.validate
validateMutant(o, p) == Return(<<>>)
validateDeniesWithoutPolicy(o, p) ==
    validatePlanPolicy(p, IF "policy" \in DOMAIN o THEN o.policy ELSE [f \in {} |-> TRUE])
validate(o, p) ==
    IF ~("policy" \in DOMAIN o) THEN Return(<<>>)
    ELSE validatePlanPolicy(p, o.policy)

----------------------------------------------------------------------------
(* Inputs drawn for an execute call. *)

Goal == <<"g">>

AddrA == <<"a">>
AddrAPadded == <<"a", " ">>
AddrB == <<"b">>
MintA == <<"A">>
MintAPadded == <<"A", " ">>
MintB == <<"B">>
MintC == <<"C">>
NotANumber == <<"x">>

Noop == [type |-> "noop"]
TransferSol(to, lamports) == [type |-> "transferSol", to |-> to, lamports |-> lamports]
SwapJupiter(inputMint, outputMint, amount) ==
    [type |-> "swapJupiter", inputMint |-> inputMint, outputMint |-> outputMint, amount |-> amount]
SwapJupiterSlippage(inputMint, outputMint, amount, slippageBps) ==
    [type |-> "swapJupiter", inputMint |-> inputMint, outputMint |-> outputMint,
     amount |-> amount, slippageBps |-> slippageBps]
\* an action of a type the AgentAction union does not have
Unsupported == [type |-> "stake"]

ExecActions ==
    { Noop,
      TransferSol(AddrA, NatToStr(LimitM)),
      TransferSol(AddrAPadded, NatToStr(LimitM)),
      TransferSol(AddrB, NatToStr(LimitM + 1)),
      TransferSol(AddrA, NotANumber),
      SwapJupiter(MintA, MintB, NatToStr(LimitM)),
      SwapJupiterSlippage(MintA, MintC, NatToStr(LimitM), LimitSlippage + 1),
      Unsupported }

PlansOver(actions, maxLen) ==
    { [goal |-> Goal, actions |-> a] : a \in UNION { [1..n -> actions] : n \in 0..maxLen } }

ExecPlans == PlansOver(ExecActions, MaxPlanLen)

AllowAllPolicy == [allowAllTransfers |-> TRUE, allowAllSwaps |-> TRUE]
StrictPolicy ==
    [allowedRecipients |-> <<AddrA>>, maxTransferLamports |-> LimitM,
     allowedMints |-> <<MintA, MintB>>, maxSwapAmount |-> LimitM,
     maxSlippageBps |-> LimitSlippage]
\* the policy {}: a record with no field
EmptyPolicy == [f \in {} |-> TRUE]

ExecPolicies == {AllowAllPolicy, StrictPolicy, EmptyPolicy}

\* the options an agent is constructed with: policy and confirm are optional
OptsOver(policies) ==
    { [policy |-> p, confirm |-> "callback"] : p \in policies }
    \cup { [policy |-> p] : p \in policies }
    \cup { [confirm |-> "callback"], [f \in {} |-> TRUE] }

ExecOpts == OptsOver(ExecPolicies)

----------------------------------------------------------------------------
(* Execution coordinator: ClaudeAgent.execute, src/src/agent/claudeAgent.ts *)

NoOutcome == [kind |-> "none"]

\* `Plan violates policy: ${violations.map((x) => `${x.path}: ${x.message}`).join('; ')}`
PolicyError(v) ==
    [name |-> "Error", message |-> "Plan violates policy",
     parts |-> [k \in 1..Len(v) |-> <<v[k].path, v[k].message>>]]

\* the error a failed network call of a collaborator raises; execute has no
\* try/catch, so it reaches the caller as it is
CollaboratorError(op, why) == [name |-> "Error", from |-> op, why |-> why]

\* new PublicKey(string): base58 text holds no white space
ValidPublicKey(s) == s # <<>> /\ \A k \in 1..Len(s) : s[k] # Space

\* the awaited network calls of transferSol(..., {confirm: true}), in order
TransferStages == <<"getLatestBlockhash", "sendTransaction", "confirmTransaction">>

\* the awaited network calls of getJupiterQuote, then executeJupiterSwap, in order
SwapStages ==
    <<"fetchQuote", "fetchSwap", "sendRawTransaction", "getLatestBlockhash", "confirmTransaction">>

\* the calls answered by an HTTP response, whose status the collaborator checks
FetchCalls == {"fetchQuote", "fetchSwap"}

Action == plan.actions[idx + 1]

StagesOf(action) == IF action.type = "transferSol" THEN TransferStages ELSE SwapStages

\* the transaction id the ledger returns for the transaction of action i
Sig(i) == [tx |-> i]

Event(op, ph) == [op |-> op, i |-> idx, ph |-> ph]

\* no proposePlan call is under way
NoArgs == <<>>

Init ==
    /\ opts \in ExecOpts
    /\ plan \in ExecPlans
    /\ args = NoArgs
    /\ pc = "pending"
    /\ idx = 0
    /\ stage = 0
    /\ sigs = <<>>
    /\ trace = <<>>
    /\ outcome = NoOutcome

\* `if (violations.length)`
HasViolationsMutant(v) == Len(v) > 1
HasViolations(v) == Len(v) > 0

\* lines 130-136: the internal validation, then the loop is entered
Execute ==
    /\ pc = "pending"
    /\ LET r == validate(opts, plan) IN
       IF r.kind = "throw"
       THEN /\ pc' = "failed"
            /\ outcome' = Throw(r.error)
            /\ trace' = Append(trace, [op |-> "validate", ph |-> "err", count |-> 0])
       ELSE IF HasViolations(r.v)
       THEN /\ pc' = "rejected"
            /\ outcome' = Throw(PolicyError(r.v))
            /\ trace' = Append(trace, [op |-> "validate", ph |-> "ret", count |-> Len(r.v)])
       ELSE /\ pc' = "loop"
            /\ outcome' = outcome
            /\ trace' = Append(trace, [op |-> "validate", ph |-> "ret", count |-> 0])
    /\ UNCHANGED <<opts, plan, args, idx, stage, sigs>>

\* line 182: the loop is over
ReturnSigs ==
    /\ pc = "loop"
    /\ idx >= Len(plan.actions)
    /\ pc' = "completed"
    /\ outcome' = Return(sigs)
    /\ UNCHANGED <<opts, plan, args, idx, stage, sigs, trace>>

\* line 138, with a confirm callback: it is called with the action
ConfirmCallSkipsNoop ==
    /\ pc = "loop"
    /\ idx < Len(plan.actions)
    /\ "confirm" \in DOMAIN opts
    /\ IF Action.type = "noop"
       THEN pc' = "dispatch" /\ trace' = trace
       ELSE pc' = "confirming" /\ trace' = Append(trace, Event("confirm", "call"))
    /\ UNCHANGED <<opts, plan, args, idx, stage, sigs, outcome>>

ConfirmCall ==
    /\ pc = "loop"
    /\ idx < Len(plan.actions)
    /\ "confirm" \in DOMAIN opts
    /\ pc' = "confirming"
    /\ trace' = Append(trace, Event("confirm", "call"))
    /\ UNCHANGED <<opts, plan, args, idx, stage, sigs, outcome>>

\* line 138, without a confirm callback: `undefined ?? true`
ConfirmDefaultDeclines ==
    /\ pc = "loop"
    /\ idx < Len(plan.actions)
    /\ ~("confirm" \in DOMAIN opts)
    /\ pc' = "loop"
    /\ idx' = idx + 1
    /\ trace' = Append(trace, Event("confirm", "default"))
    /\ UNCHANGED <<opts, plan, args, stage, sigs, outcome>>

ConfirmDefault ==
    /\ pc = "loop"
    /\ idx < Len(plan.actions)
    /\ ~("confirm" \in DOMAIN opts)
    /\ pc' = "dispatch"
    /\ trace' = Append(trace, Event("confirm", "default"))
    /\ UNCHANGED <<opts, plan, args, idx, stage, sigs, outcome>>

\* line 139: `if (!ok) continue` lets the action through iff ok
ProceedsMutant(ok) == TRUE
Proceeds(ok) == ok

\* lines 138-139: the callback answers ok
ConfirmReturn(ok) ==
    /\ pc = "confirming"
    /\ trace' = Append(trace, Event("confirm", IF ok THEN "true" ELSE "false"))
    /\ IF Proceeds(ok) THEN pc' = "dispatch" /\ idx' = idx
                       ELSE pc' = "loop" /\ idx' = idx + 1
    /\ UNCHANGED <<opts, plan, args, stage, sigs, outcome>>

\* line 138: the callback throws (or its promise rejects)
ConfirmThrow ==
    /\ pc = "confirming"
    /\ trace' = Append(trace, Event("confirm", "err"))
    /\ pc' = "failed"
    /\ outcome' = Throw(CollaboratorError("confirm", "rejected"))
    /\ UNCHANGED <<opts, plan, args, idx, stage, sigs>>

\* line 141
DispatchNoop ==
    /\ pc = "dispatch"
    /\ Action.type = "noop"
    /\ pc' = "loop"
    /\ idx' = idx + 1
    /\ UNCHANGED <<opts, plan, args, stage, sigs, trace, outcome>>

\* lines 143-150: the arguments are evaluated, transferSol is called and
\* runs to its first await (tokens.ts 121-137).  Every amount of the model is
\* far below Number.MAX_SAFE_INTEGER, so the guard of line 121 is passed.
DispatchTransfer ==
    /\ pc = "dispatch"
    /\ Action.type = "transferSol"
    /\ IF ~ValidPublicKey(Action.to)
       THEN /\ pc' = "failed"
            /\ outcome' = Throw([name |-> "Error", from |-> "asPublicKey"])
            /\ UNCHANGED <<stage, trace>>
       ELSE IF ~BigInt(Action.lamports).ok
       THEN /\ pc' = "failed"
            /\ outcome' = Throw(SyntaxError)
            /\ UNCHANGED <<stage, trace>>
       ELSE /\ pc' = "awaiting"
            /\ stage' = 1
            /\ trace' = trace \o <<Event("transferSol", "call"), Event(TransferStages[1], "call")>>
            /\ outcome' = outcome
    /\ UNCHANGED <<opts, plan, args, idx, sigs>>

\* `action.slippageBps ?? 50`
SlippageArg(action) ==
    IF "slippageBps" \in DOMAIN action THEN action.slippageBps ELSE DefaultSlippageBps

\* lines 155-165: getJupiterQuote is called and runs to its fetch (part_000 72-85)
DispatchSwap ==
    /\ pc = "dispatch"
    /\ Action.type = "swapJupiter"
    /\ pc' = "awaiting"
    /\ stage' = 1
    /\ trace' = trace \o
          <<[op |-> "getJupiterQuote", i |-> idx, ph |-> "call", slippageBps |-> SlippageArg(Action)],
            Event(SwapStages[1], "call")>>
    /\ UNCHANGED <<opts, plan, args, idx, sigs, outcome>>

\* lines 178-179
UnsupportedError == [name |-> "Error", message |-> "Unsupported action"]

DispatchUnsupportedSkips ==
    /\ pc = "dispatch"
    /\ Action.type \notin {"noop", "transferSol", "swapJupiter"}
    /\ pc' = "loop"
    /\ idx' = idx + 1
    /\ UNCHANGED <<opts, plan, args, stage, sigs, trace, outcome>>

DispatchUnsupported ==
    /\ pc = "dispatch"
    /\ Action.type \notin {"noop", "transferSol", "swapJupiter"}
    /\ pc' = "failed"
    /\ outcome' = Throw(UnsupportedError)
    /\ UNCHANGED <<opts, plan, args, idx, stage, sigs, trace>>

\* what execute does with the id its collaborator returned: lines 151 and 174
PushSigPrepends(list, sig) == <<sig>> \o list
PushSigDrops(list, sig) == list
PushSig(list, sig) == Append(list, sig)

\* the same with the next call started before the one in flight has returned
NetResolveOverlaps ==
    /\ pc = "awaiting"
    /\ LET stages == StagesOf(Action)
           done == Event(stages[stage], "ret")
       IN  IF stage < Len(stages)
           THEN /\ stage' = stage + 1
                /\ trace' = trace \o <<Event(stages[stage + 1], "call"), done>>
                /\ UNCHANGED <<pc, idx, sigs>>
           ELSE /\ stage' = 0
                /\ trace' = trace \o <<done>>
                /\ sigs' = PushSig(sigs, Sig(idx))
                /\ idx' = idx + 1
                /\ pc' = "loop"
    /\ UNCHANGED <<opts, plan, args, outcome>>

\* the network call in flight returns: the collaborator goes on to its next
\* await, or returns the transaction id to execute, which appends it and
\* moves to the next action (lines 151-152, 174-175)
NetResolve ==
    /\ pc = "awaiting"
    /\ LET stages == StagesOf(Action)
           done == Event(stages[stage], "ret")
       IN  IF stage < Len(stages)
           THEN /\ stage' = stage + 1
                /\ trace' = trace \o
                      (IF stages[stage] = "fetchQuote"
                       THEN <<done, Event("getJupiterQuote", "ret"),
                              Event("executeJupiterSwap", "call"), Event(stages[stage + 1], "call")>>
                       ELSE <<done, Event(stages[stage + 1], "call")>>)
                /\ UNCHANGED <<pc, idx, sigs>>
           ELSE /\ stage' = 0
                /\ trace' = trace \o
                      <<done, Event(IF Action.type = "transferSol" THEN "transferSol"
                                    ELSE "executeJupiterSwap", "ret")>>
                /\ sigs' = PushSig(sigs, Sig(idx))
                /\ idx' = idx + 1
                /\ pc' = "loop"
    /\ UNCHANGED <<opts, plan, args, outcome>>

\* how a collaborator's failure reaches the caller: nothing catches or wraps it
FailedWithMutant(op, why) == Throw([name |-> "Error", message |-> "execution failed"])
FailedWith(op, why) == Throw(CollaboratorError(op, why))

\* where a rejected await leaves execute: the loop is abandoned
PropagateMutant == [pc |-> "loop", idx |-> idx + 1]
Propagate == [pc |-> "failed", idx |-> idx]

\* the network call in flight fails (the request is rejected, or its answer
\* cannot be read): the rejection propagates through the collaborator and
\* through execute
NetReject ==
    /\ pc = "awaiting"
    /\ LET op == StagesOf(Action)[stage] IN
       /\ trace' = Append(trace, Event(op, "err"))
       /\ outcome' = FailedWith(op, "rejected")
    /\ pc' = Propagate.pc
    /\ idx' = Propagate.idx
    /\ UNCHANGED <<opts, plan, args, stage, sigs>>

\* a fetch is answered with a status outside 2xx: `if (!res.ok) throw`
NetNon2xx ==
    /\ pc = "awaiting"
    /\ LET op == StagesOf(Action)[stage] IN
       /\ op \in FetchCalls
       /\ trace' = Append(trace, Event(op, "non2xx"))
       /\ outcome' = FailedWith(op, "non2xx")
    /\ pc' = Propagate.pc
    /\ idx' = Propagate.idx
    /\ UNCHANGED <<opts, plan, args, stage, sigs>>

Next ==
    \/ Execute
    \/ ReturnSigs
    \/ ConfirmCall
    \/ ConfirmDefault
    \/ \E ok \in BOOLEAN : ConfirmReturn(ok)
    \/ ConfirmThrow
    \/ DispatchNoop
    \/ DispatchTransfer
    \/ DispatchSwap
    \/ DispatchUnsupported
    \/ NetResolve
    \/ NetReject
    \/ NetNon2xx

Spec == Init /\ [][Next]_vars

\* every confirmation and collaborator call returns or fails, and the event
\* loop runs every continuation that is ready: a step that can be taken is taken
SpecLive == Spec /\ WF_vars(Next)

----------------------------------------------------------------------------
(* The policy engine on its own: a caller's ClaudeAgent.validate(plan), over *)
(* a wider range of policies and actions than the execute calls above.      *)

Negative == <<"-", "1">>

\* the records with field name absent, or present with one of the values
Optional(name, values) == {[f \in {} |-> TRUE]} \cup {[f \in {name} |-> v] : v \in values}

Merge(a, b) == [f \in DOMAIN a \cup DOMAIN b |-> IF f \in DOMAIN a THEN a[f] ELSE b[f]]

\* the policies that set only the fields about transfers
TransferPolicies ==
    { Merge(r, Merge(a, m)) :
        r \in Optional("allowedRecipients", {<<>>, <<AddrA>>, <<AddrAPadded, AddrB>>}),
        a \in Optional("allowAllTransfers", BOOLEAN),
        m \in Optional("maxTransferLamports", {LimitM}) }

\* the policies that set only the fields about swaps
SwapPolicies ==
    { Merge(Merge(r, a), Merge(m, sl)) :
        r \in Optional("allowedMints", {<<>>, <<MintA>>, <<MintAPadded, MintB>>}),
        a \in Optional("allowAllSwaps", BOOLEAN),
        m \in Optional("maxSwapAmount", {LimitM}),
        sl \in Optional("maxSlippageBps", {LimitSlippage}) }

Policies == TransferPolicies \cup SwapPolicies \cup ExecPolicies

PolicyOpts == { [policy |-> p] : p \in Policies }

Amounts == {NatToStr(LimitM), NatToStr(LimitM + 1), Negative, NotANumber}

TransferActions == { TransferSol(to, lamports) : to \in {AddrA, AddrAPadded, AddrB}, lamports \in Amounts }

SwapActions ==
    { SwapJupiter(i, o, NatToStr(LimitM)) : i \in {MintA, MintC}, o \in {MintAPadded, MintB, MintC} }
    \cup { SwapJupiterSlippage(i, o, a, sl) :
             i \in {MintA, MintC}, o \in {MintB, MintC},
             a \in {NatToStr(LimitM + 1), NotANumber},
             sl \in {LimitSlippage, LimitSlippage + 1} }

PolicyActions == {Noop, Unsupported} \cup TransferActions \cup SwapActions

\* the actions that fill the rest of a plan
CommonActions ==
    { Noop,
      TransferSol(AddrA, NatToStr(LimitM)),
      TransferSol(AddrB, NatToStr(LimitM + 1)),
      SwapJupiter(MintA, MintC, NatToStr(LimitM)),
      TransferSol(AddrA, NotANumber) }

\* plans of at most MaxPlanLen actions: any one action of PolicyActions, at
\* any index, among actions of CommonActions
PolicyPlans ==
    PlansOver(PolicyActions, 1)
    \cup PlansOver(CommonActions, MaxPlanLen)
    \cup UNION { { [goal |-> Goal, actions |-> [rest EXCEPT ![k] = a]] :
                     k \in 1..Len(rest), a \in PolicyActions } :
                   rest \in UNION { [1..n -> CommonActions] : n \in 2..MaxPlanLen } }

InitPolicy ==
    /\ opts \in PolicyOpts
    /\ plan \in PolicyPlans
    /\ args = NoArgs
    /\ pc = "pending"
    /\ idx = 0
    /\ stage = 0
    /\ sigs = <<>>
    /\ trace = <<>>
    /\ outcome = NoOutcome

\* the caller's agent.validate(plan)
ValidateCall ==
    /\ pc = "pending"
    /\ outcome' = validate(opts, plan)
    /\ pc' = "validated"
    /\ UNCHANGED <<opts, plan, args, idx, stage, sigs, trace>>

NextPolicy == ValidateCall

SpecPolicy == InitPolicy /\ [][NextPolicy]_vars

----------------------------------------------------------------------------
(* The plan source: ClaudeAgent.proposePlan and AnthropicClient.createJson. *)
(* A value of the JavaScript run time is a record tagged with its kind      *)
(* (field t), so that `typeof`, `!v` and Array.isArray are computed.  The   *)
(* own properties of an object or of an array are the record in field f.    *)

MaxReplyActions == 4
MaxActionsArg == 4

\* `args.maxActions ?? 3`
DefaultMaxActions == 3

\* an object without own properties
NoProps == [k \in {} |-> TRUE]

Undefined == [t |-> "undefined"]
JNull == [t |-> "null"]
JNum(n) == [t |-> "number", n |-> n]
JStr(s) == [t |-> "string", s |-> s]
JArr(items) == [t |-> "array", items |-> items, f |-> NoProps]
JObj(fields) == [t |-> "object", f |-> fields]

\* `!v` is false
Truthy(v) ==
    CASE v.t \in {"undefined", "null"} -> FALSE
      [] v.t = "number" -> v.n # 0
      [] v.t = "string" -> v.s # <<>>
      [] OTHER -> TRUE

\* `typeof v === 'object'`
TypeofObject(v) == v.t \in {"null", "array", "object"}

IsArray(v) == v.t = "array"

\* v.name and v.name = x, for an object or an array v
GetProp(v, name) == IF name \in DOMAIN v.f THEN v.f[name] ELSE Undefined
SetProp(v, name, x) ==
    [v EXCEPT !.f = [k \in (DOMAIN v.f) \cup {name} |-> IF k = name THEN x ELSE v.f[k]]]

Min(a, b) == IF a <= b THEN a ELSE b
Max(a, b) == IF a >= b THEN a ELSE b

\* Array.prototype.slice(0, end): a fresh array of the entries before end,
\* a negative end counting from the back
SliceKeepsLast(arr, end) ==
    JArr(SubSeq(arr.items, Len(arr.items) - Min(Len(arr.items), Max(end, 0)) + 1, Len(arr.items)))
Slice(arr, end) ==
    LET n == Len(arr.items)
        e == IF end < 0 THEN Max(n + end, 0) ELSE Min(end, n)
    IN  JArr(SubSeq(arr.items, 1, e))

NoopEntry == JObj([type |-> JStr("noop")])

\* the plan of lines 57 and 111
FallbackPlanEmpty(goal, summary) ==
    JObj([goal |-> JStr(goal), summary |-> JStr(summary), actions |-> JArr(<<>>)])
FallbackPlan(goal, summary) ==
    JObj([goal |-> JStr(goal), summary |-> JStr(summary), actions |-> JArr(<<NoopEntry>>)])

MaxActionsOf(a) == IF "maxActions" \in DOMAIN a THEN a.maxActions ELSE DefaultMaxActions

\* lines 109-116: what proposePlan makes of the value createJson returned
Normalize(v, a) ==
    IF ~Truthy(v) \/ ~TypeofObject(v) THEN FallbackPlan(a.goal, "Invalid plan")
    ELSE LET p == IF IsArray(GetProp(v, "actions")) THEN v
                  ELSE SetProp(v, "actions", JArr(<<NoopEntry>>))
         IN  SetProp(p, "actions", Slice(GetProp(p, "actions"), MaxActionsOf(a)))

\* The text of a text block is its payload, the characters between the
\* optional markdown fences: the text of a JSON value, or other characters.
NotJson == [t |-> "notjson"]
Text(fenced, payload) == [fenced |-> fenced, payload |-> payload]

\* anthropic.ts 89-94: the fences are stripped
Cleaned(text) == [text EXCEPT !.fenced = FALSE]

\* JSON.parse: a SyntaxError unless the characters are the text of a JSON value
JSONParse(text) ==
    IF text.fenced \/ text.payload = NotJson
    THEN Throw([name |-> "SyntaxError", from |-> "JSON.parse"])
    ELSE Return(text.payload)

ToolUseBlock == [type |-> "tool_use"]
TextBlock(text) == [type |-> "text", text |-> text]

\* anthropic.ts 78-82: the text of the first text block of the response
RECURSIVE FirstText(_)
FirstText(blocks) ==
    IF blocks = <<>> THEN Undefined
    ELSE IF Head(blocks).type = "text" THEN Head(blocks).text
    ELSE FirstText(Tail(blocks))

\* anthropic.ts 75-96: createJson once createMessage has returned the blocks
createJson(blocks) ==
    LET text == FirstText(blocks) IN
    IF text = Undefined
    THEN Throw([name |-> "Error", message |-> "Anthropic response did not contain a text block"])
    ELSE JSONParse(Cleaned(text))

OtherGoal == <<"h">>

TransferEntry == JObj([type |-> JStr("transferSol"), to |-> JStr(AddrA), lamports |-> JStr(NatToStr(1))])
StakeEntry == JObj([type |-> JStr("stake")])

\* what the model may put in `actions`: two well-formed actions, an action
\* of no known type, and a number
Entries == {NoopEntry, TransferEntry, StakeEntry, JNum(7)}

RECURSIVE SeqsUpTo(_, _)
SeqsUpTo(S, n) ==
    IF n = 0 THEN {<<>>}
    ELSE LET shorter == SeqsUpTo(S, n - 1)
         IN  shorter \cup {Append(q, x) : q \in {r \in shorter : Len(r) = n - 1}, x \in S}

ObjectProposals ==
    {JObj(Merge(g, a)) :
        g \in {NoProps, [goal |-> JStr(OtherGoal)]},
        a \in {NoProps, [actions |-> JStr(<<"n">>)]}
              \cup {[actions |-> JArr(items)] : items \in SeqsUpTo(Entries, MaxReplyActions)}}

Proposals == {JNull, JNum(0), JNum(7), JStr(<<"p">>), JArr(<<>>), JArr(<<NoopEntry>>)} \cup ObjectProposals

Texts == {Text(FALSE, NotJson)} \cup {Text(fenced, v) : fenced \in BOOLEAN, v \in Proposals}

Bodies ==
    {<<ToolUseBlock>>, <<ToolUseBlock, TextBlock(Text(FALSE, JNull))>>}
    \cup {<<TextBlock(text)>> : text \in Texts}

ProposeOpts == {NoProps, [anthropic |-> "client"]}

ProposeArgs ==
    {[goal |-> g] : g \in {Goal, OtherGoal}}
    \cup {[goal |-> g, maxActions |-> m] : g \in {Goal, OtherGoal}, m \in 0..MaxActionsArg}

NoPlan == [goal |-> <<>>, actions |-> <<>>]

InitPropose ==
    /\ opts \in ProposeOpts
    /\ plan = NoPlan
    /\ args \in ProposeArgs
    /\ pc = "pending"
    /\ idx = 0
    /\ stage = 0
    /\ sigs = <<>>
    /\ trace = <<>>
    /\ outcome = NoOutcome

\* lines 56-107: without a client the fallback plan is returned at once;
\* with one, createJson is called and runs to the fetch of createMessage
\* (anthropic.ts 35)
ProposePlan ==
    /\ pc = "pending"
    /\ IF ~("anthropic" \in DOMAIN opts)
       THEN /\ pc' = "proposed"
            /\ outcome' = Return(FallbackPlan(args.goal, "No Anthropic client configured"))
            /\ trace' = trace
       ELSE /\ pc' = "inferring"
            /\ outcome' = outcome
            /\ trace' = trace \o <<[op |-> "createJson", ph |-> "call"],
                                   [op |-> "fetchMessages", ph |-> "call"]>>
    /\ UNCHANGED <<opts, plan, args, idx, stage, sigs>>

\* the response arrives with content blocks: the rest of createJson runs, and
\* proposePlan normalizes what it returns or is rejected with what it throws
InferenceResolve(blocks) ==
    /\ pc = "inferring"
    /\ LET r == createJson(blocks) IN
       IF r.kind = "throw"
       THEN /\ pc' = "failed"
            /\ outcome' = r
            /\ trace' = trace \o <<[op |-> "fetchMessages", ph |-> "ret", blocks |-> blocks],
                                   [op |-> "createJson", ph |-> "err"]>>
       ELSE /\ pc' = "proposed"
            /\ outcome' = Return(Normalize(r.v, args))
            /\ trace' = trace \o <<[op |-> "fetchMessages", ph |-> "ret", blocks |-> blocks],
                                   [op |-> "createJson", ph |-> "ret", value |-> r.v]>>
    /\ UNCHANGED <<opts, plan, args, idx, stage, sigs>>

\* anthropic.ts 51-54: the status is outside 2xx
InferenceNon2xx ==
    /\ pc = "inferring"
    /\ pc' = "failed"
    /\ outcome' = Throw(CollaboratorError("fetchMessages", "non2xx"))
    /\ trace' = trace \o <<[op |-> "fetchMessages", ph |-> "non2xx"], [op |-> "createJson", ph |-> "err"]>>
    /\ UNCHANGED <<opts, plan, args, idx, stage, sigs>>

\* the request is rejected, or the body of the response cannot be read
InferenceReject ==
    /\ pc = "inferring"
    /\ pc' = "failed"
    /\ outcome' = Throw(CollaboratorError("fetchMessages", "rejected"))
    /\ trace' = trace \o <<[op |-> "fetchMessages", ph |-> "err"], [op |-> "createJson", ph |-> "err"]>>
    /\ UNCHANGED <<opts, plan, args, idx, stage, sigs>>

NextPropose ==
    \/ ProposePlan
    \/ \E blocks \in Bodies : InferenceResolve(blocks)
    \/ InferenceNon2xx
    \/ InferenceReject

SpecPropose == InitPropose /\ [][NextPropose]_vars

----------------------------------------------------------------------------
(* Properties of execute, checked under Spec. *)

\* the calls that belong to the ledger and swap collaborators
CollaboratorFunctions == {"transferSol", "getJupiterQuote", "executeJupiterSwap"}
NetworkCalls ==
    {"getLatestBlockhash", "sendTransaction", "confirmTransaction",
     "fetchQuote", "fetchSwap", "sendRawTransaction"}
CollaboratorOps == CollaboratorFunctions \cup NetworkCalls

IsCollaboratorEvent(e) == e.op \in CollaboratorOps
IsConfirmEvent(e) == e.op = "confirm"
IsFailureEvent(e) == IsCollaboratorEvent(e) /\ e.ph \in {"err", "non2xx"}

\* the whole plan has no violation under the agent's policy (or there is no policy)
PlanIsValid ==
    \/ ~("policy" \in DOMAIN opts)
    \/ validatePlanPolicy(plan, opts.policy) = Return(<<>>)

\* the 0-based indices of the plan's actions, in order
Indices == [k \in 1..Len(plan.actions) |-> k - 1]

\* action i was let through by the confirmation step
WasConfirmed(i) ==
    \E k \in 1..Len(trace) :
        IsConfirmEvent(trace[k]) /\ trace[k].i = i /\ trace[k].ph \in {"true", "default"}

\* action i ran its collaborator to the end
WasCompleted(i) ==
    \E k \in 1..Len(trace) :
        /\ trace[k].op \in {"transferSol", "executeJupiterSwap"}
        /\ trace[k].i = i
        /\ trace[k].ph = "ret"

SigsOf(indices) == [k \in 1..Len(indices) |-> Sig(indices[k])]

IsEffectful(i) == plan.actions[i + 1].type \in {"transferSol", "swapJupiter"}
EffectfulAndConfirmed(i) == IsEffectful(i) /\ WasConfirmed(i)

\* C1: when the agent has a policy and validatePlanPolicy returns at least one
\* violation for the plan, execute ends rejected with one error that holds one
\* part per violation, in order, and the confirmation capability and the
\* collaborators have not been called for any action: no id was produced.
C1_RejectsWholePlan ==
    ( /\ pc # "pending"
      /\ "policy" \in DOMAIN opts
      /\ validatePlanPolicy(plan, opts.policy).kind = "return"
      /\ validatePlanPolicy(plan, opts.policy).v # <<>> )
    => LET v == validatePlanPolicy(plan, opts.policy).v IN
       /\ pc = "rejected"
       /\ outcome.kind = "throw"
       /\ outcome.error.message = "Plan violates policy"
       /\ Len(outcome.error.parts) = Len(v)
       /\ \A k \in 1..Len(v) : outcome.error.parts[k] = <<v[k].path, v[k].message>>
       /\ \A k \in 1..Len(trace) : ~IsConfirmEvent(trace[k]) /\ ~IsCollaboratorEvent(trace[k])
       /\ sigs = <<>>

\* a plan of several actions of which exactly one violates has been rejected
C1_Witness ==
    /\ pc = "rejected"
    /\ Len(plan.actions) >= 2
    /\ Cardinality({outcome.error.parts[k][1][2] : k \in 1..Len(outcome.error.parts)}) = 1
    /\ \E i \in 0..(Len(plan.actions) - 1) : IsEffectful(i) /\ outcome.error.parts[1][1][2] # i

\* C2: whenever a ledger or swap collaborator call has been made for action i,
\* the validation at the start of the call returned no violation (and the plan
\* has none), and before that collaborator call the confirmation step let
\* action i through.
C2_OnlyValidatedAndConfirmed ==
    \A k \in 1..Len(trace) :
        IsCollaboratorEvent(trace[k]) =>
            /\ PlanIsValid
            /\ trace[1] = [op |-> "validate", ph |-> "ret", count |-> 0]
            /\ \E j \in 1..(k - 1) :
                   /\ IsConfirmEvent(trace[j])
                   /\ trace[j].i = trace[k].i
                   /\ trace[j].ph \in {"true", "default"}

\* a transaction was submitted under a policy, after the callback said yes
C2_Witness ==
    /\ "policy" \in DOMAIN opts
    /\ "confirm" \in DOMAIN opts
    /\ \E k \in 1..Len(trace) : trace[k].op = "sendTransaction" /\ trace[k].ph = "ret"
    /\ \E k \in 1..Len(trace) : trace[k].op = "sendRawTransaction" /\ trace[k].ph = "ret"

\* C3: if the confirmation capability returned false for action i, no
\* collaborator call is ever made for i, no id of i is in the result list,
\* and right after the answer execute is at action i + 1 with no error raised.
C3_DeclinedIsSkipped ==
    \A k \in 1..Len(trace) :
        (IsConfirmEvent(trace[k]) /\ trace[k].ph = "false") =>
            /\ \A j \in 1..Len(trace) :
                   IsCollaboratorEvent(trace[j]) => trace[j].i # trace[k].i
            /\ \A j \in 1..Len(sigs) : sigs[j] # Sig(trace[k].i)
            /\ k = Len(trace) =>
                   /\ pc \in {"loop", "completed"}
                   /\ idx = trace[k].i + 1
                   /\ outcome.kind # "throw"

\* a transfer was declined and a later action was dispatched all the same
C3_Witness ==
    \E k \in 1..Len(trace) :
        /\ IsConfirmEvent(trace[k]) /\ trace[k].ph = "false"
        /\ plan.actions[trace[k].i + 1].type = "transferSol"
        /\ \E j \in (k + 1)..Len(trace) :
               IsCollaboratorEvent(trace[j]) /\ trace[j].i = trace[k].i + 1

\* C4: collaborators are entered in strictly increasing plan index (so at
\* most once per action), and a call that completes normally returns exactly
\* the ids of the confirmed transferSol and swapJupiter actions, one each, in
\* plan order, and none for a noop or a declined action.
C4_OrderedResults ==
    /\ \A j, k \in 1..Len(trace) :
           ( /\ j < k
             /\ trace[j].op \in {"transferSol", "getJupiterQuote"} /\ trace[j].ph = "call"
             /\ trace[k].op \in {"transferSol", "getJupiterQuote"} /\ trace[k].ph = "call" )
           => trace[j].i < trace[k].i
    /\ pc = "completed" =>
           /\ outcome.kind = "return"
           /\ outcome.v = SigsOf(SelectSeq(Indices, EffectfulAndConfirmed))

\* a call completed with two ids, having skipped or declined nothing of them
C4_Witness ==
    /\ pc = "completed"
    /\ Len(outcome.v) >= 2
    /\ outcome.v[1] # outcome.v[2]

\* C5: when a collaborator call fails for action i, it is the last thing that
\* happens: no confirmation and no collaborator call follows for any action,
\* and the call has failed with the error of that collaborator call.
C5_FailureAbortsRest ==
    \A k \in 1..Len(trace) :
        IsFailureEvent(trace[k]) =>
            /\ k = Len(trace)
            /\ \A j \in 1..Len(trace) : trace[j].op # "validate" => trace[j].i <= trace[k].i
            /\ pc = "failed"
            /\ outcome.kind = "throw"
            /\ outcome.error.from = trace[k].op

\* a collaborator failed while a later action was still to come
C5_Witness ==
    /\ pc = "failed"
    /\ trace # <<>>
    /\ IsFailureEvent(trace[Len(trace)])
    /\ idx + 1 < Len(plan.actions)
    /\ IsEffectful(idx + 1)

\* the failure of a collaborator call has ended the call at action idx
FailedInCollaborator ==
    /\ pc = "failed"
    /\ trace # <<>>
    /\ IsFailureEvent(trace[Len(trace)])

\* the caller has the list in hand: as the returned value, or in the error
CallerObtains(list) ==
    \/ outcome.kind = "return" /\ outcome.v = list
    \/ /\ outcome.kind = "throw"
       /\ "sigs" \in DOMAIN outcome.error
       /\ outcome.error.sigs = list

----------------------------------------------------------------------------
(* Properties of the policy engine, checked under SpecPolicy.  They are     *)
(* about the list validate returns; a call that throws returns none.        *)

Validated == pc = "validated" /\ outcome.kind = "return"

ActionIndices == 0..(Len(plan.actions) - 1)

\* how many violations of the returned list are on `actions[i].field`
CountAt(i, field) ==
    Cardinality({k \in 1..Len(outcome.v) : outcome.v[k].path = <<"actions", i, field>>})

\* flag f is false or absent, and list l is empty or absent
DeniesAll(policy, f, l) ==
    /\ (f \in DOMAIN policy => policy[f] = FALSE)
    /\ (l \in DOMAIN policy => policy[l] = <<>>)

\* C8: under a policy with allowAllTransfers false or absent and
\* allowedRecipients empty or absent, the returned list has a violation on
\* actions[i].to for every transferSol action i, whatever its recipient and
\* amount; with allowAllSwaps false or absent and allowedMints empty or
\* absent, every swapJupiter action i has violations (on both mints).
C8_DenyByDefault ==
    Validated =>
        \A i \in ActionIndices :
            LET a == plan.actions[i + 1] IN
            /\ (a.type = "transferSol" /\ DeniesAll(opts.policy, "allowAllTransfers", "allowedRecipients"))
                   => CountAt(i, "to") = 1
            /\ (a.type = "swapJupiter" /\ DeniesAll(opts.policy, "allowAllSwaps", "allowedMints"))
                   => CountAt(i, "inputMint") = 1 /\ CountAt(i, "outputMint") = 1

\* the policy {} has rejected a small transfer and a swap
C8_Witness ==
    /\ Validated
    /\ opts.policy = EmptyPolicy
    /\ \E i \in ActionIndices :
           /\ plan.actions[i + 1] = TransferSol(AddrA, NatToStr(LimitM))
           /\ CountAt(i, "to") = 1
    /\ \E i \in ActionIndices :
           /\ plan.actions[i + 1].type = "swapJupiter"
           /\ CountAt(i, "inputMint") = 1

\* C9: with maxTransferLamports = M, a transferSol of exactly M lamports has
\* no violation on actions[i].lamports and one of M + 1 lamports has exactly
\* one; the same for the amount of a swapJupiter against maxSwapAmount.
C9_InclusiveLimits ==
    Validated =>
        \A i \in ActionIndices :
            LET a == plan.actions[i + 1] IN
            /\ (a.type = "transferSol" /\ "maxTransferLamports" \in DOMAIN opts.policy) =>
                   /\ a.lamports = NatToStr(opts.policy.maxTransferLamports)
                          => CountAt(i, "lamports") = 0
                   /\ a.lamports = NatToStr(opts.policy.maxTransferLamports + 1)
                          => CountAt(i, "lamports") = 1
            /\ (a.type = "swapJupiter" /\ "maxSwapAmount" \in DOMAIN opts.policy) =>
                   /\ a.amount = NatToStr(opts.policy.maxSwapAmount)
                          => CountAt(i, "amount") = 0
                   /\ a.amount = NatToStr(opts.policy.maxSwapAmount + 1)
                          => CountAt(i, "amount") = 1

\* one plan holds a transfer at the limit, accepted, and one just above it, rejected
C9_Witness ==
    /\ Validated
    /\ "maxTransferLamports" \in DOMAIN opts.policy
    /\ \E i, j \in ActionIndices :
           /\ plan.actions[i + 1].type = "transferSol"
           /\ plan.actions[i + 1].lamports = NatToStr(opts.policy.maxTransferLamports)
           /\ CountAt(i, "lamports") = 0
           /\ plan.actions[j + 1].type = "transferSol"
           /\ plan.actions[j + 1].lamports = NatToStr(opts.policy.maxTransferLamports + 1)
           /\ CountAt(j, "lamports") = 1

\* mint x equals, after trimming, some entry of allowedMints after trimming
MintAllowlisted(policy, x) ==
    /\ "allowedMints" \in DOMAIN policy
    /\ \E k \in 1..Len(policy.allowedMints) : Trim(policy.allowedMints[k]) = Trim(x)

\* C10: when allowAllSwaps is not true, the returned list has one violation
\* on actions[i].inputMint iff inputMint is not allowlisted, none otherwise,
\* and the same, independently, for outputMint: a swap has as many allowlist
\* violations as it has sides that are not allowlisted.
C10_SidesIndependent ==
    Validated =>
        \A i \in ActionIndices :
            LET a == plan.actions[i + 1] IN
            (a.type = "swapJupiter" /\ ~("allowAllSwaps" \in DOMAIN opts.policy /\ opts.policy.allowAllSwaps)) =>
                /\ CountAt(i, "inputMint") = (IF MintAllowlisted(opts.policy, a.inputMint) THEN 0 ELSE 1)
                /\ CountAt(i, "outputMint") = (IF MintAllowlisted(opts.policy, a.outputMint) THEN 0 ELSE 1)

\* a swap from an allowlisted mint to one that is not: one violation, on the output side
C10_Witness ==
    /\ Validated
    /\ "allowAllSwaps" \in DOMAIN opts.policy
    /\ opts.policy.allowAllSwaps = FALSE
    /\ \E i \in ActionIndices :
           /\ plan.actions[i + 1].type = "swapJupiter"
           /\ MintAllowlisted(opts.policy, plan.actions[i + 1].inputMint)
           /\ CountAt(i, "inputMint") = 0
           /\ CountAt(i, "outputMint") = 1

\* the amount string of a transferSol or swapJupiter action
AmountOf(a) == IF a.type = "transferSol" THEN a.lamports ELSE a.amount

\* the string is the decimal text of a non-negative integer
IsUnsignedDecimal(s) == s # <<>> /\ \A k \in 1..Len(s) : \E d \in 0..9 : s[k] = NatToStr(d)[1]

\* how many violations of the returned list are on a field of actions[i]
CountFor(i) ==
    Cardinality({k \in 1..Len(outcome.v) : outcome.v[k].path[1] = "actions" /\ outcome.v[k].path[2] = i})

\* C11 as stated: for an action whose amount is not the text of a non-negative
\* integer, validation returns normally and its list holds at least one
\* violation for that action.
C11_BadAmountIsViolation ==
    pc = "validated" =>
        \A i \in ActionIndices :
            LET a == plan.actions[i + 1] IN
            (a.type \in {"transferSol", "swapJupiter"} /\ ~IsUnsignedDecimal(AmountOf(a))) =>
                /\ outcome.kind = "return"
                /\ CountFor(i) >= 1

\* the entry with the given trimmed value is in the list under field l
Allowlisted(policy, l, x) ==
    /\ l \in DOMAIN policy
    /\ \E k \in 1..Len(policy[l]) : Trim(policy[l][k]) = Trim(x)

FlagIsTrue(policy, f) == f \in DOMAIN policy /\ policy[f] = TRUE

\* the rules of the policy that action a breaks, as the fields they are reported on
BrokenRules(a, policy) ==
    IF a.type = "transferSol" THEN
        {f \in {"to"} : ~FlagIsTrue(policy, "allowAllTransfers")
                        /\ ~Allowlisted(policy, "allowedRecipients", a.to)}
        \cup {f \in {"lamports"} : "maxTransferLamports" \in DOMAIN policy
                                   /\ BigInt(a.lamports).val >= policy.maxTransferLamports + 1}
    ELSE IF a.type = "swapJupiter" THEN
        {f \in {"inputMint"} : ~FlagIsTrue(policy, "allowAllSwaps")
                               /\ ~Allowlisted(policy, "allowedMints", a.inputMint)}
        \cup {f \in {"outputMint"} : ~FlagIsTrue(policy, "allowAllSwaps")
                                     /\ ~Allowlisted(policy, "allowedMints", a.outputMint)}
        \cup {f \in {"amount"} : "maxSwapAmount" \in DOMAIN policy
                                 /\ BigInt(a.amount).val >= policy.maxSwapAmount + 1}
        \cup {f \in {"slippageBps"} : "slippageBps" \in DOMAIN a /\ "maxSlippageBps" \in DOMAIN policy
                                      /\ a.slippageBps >= policy.maxSlippageBps + 1}
    ELSE {}

\* C12: the returned list is complete and ordered: for every action i it
\* holds exactly one violation per rule the action breaks, on actions[i].<field>,
\* nothing else, and the violations of a lower index come before those of a
\* higher one; a violation of one action never hides those of another.
C12_AllViolationsInOrder ==
    Validated =>
        /\ \A i \in ActionIndices :
               /\ \A f \in BrokenRules(plan.actions[i + 1], opts.policy) : CountAt(i, f) = 1
               /\ CountFor(i) = Cardinality(BrokenRules(plan.actions[i + 1], opts.policy))
        /\ \A k \in 1..Len(outcome.v) :
               /\ outcome.v[k].path[1] = "actions"
               /\ outcome.v[k].path[2] \in ActionIndices
        /\ \A j, k \in 1..Len(outcome.v) : j < k => outcome.v[j].path[2] <= outcome.v[k].path[2]

\* a swap that breaks four rules, followed by another action that breaks one
C12_Witness ==
    /\ Validated
    /\ \E i, j \in ActionIndices :
           /\ i < j
           /\ CountFor(i) = 4
           /\ CountFor(j) >= 1

\* C14: with allowAllTransfers not true, a recipient has no violation iff its
\* trimmed value equals the trimmed value of some entry of allowedRecipients:
\* the entries "a" and "a " both admit "a" and "a ", and neither admits "b";
\* the same for a mint against allowedMints.
C14_TrimmedMembership ==
    Validated =>
        \A i \in ActionIndices :
            LET a == plan.actions[i + 1]
                p == opts.policy
            IN
            /\ (a.type = "transferSol" /\ ~FlagIsTrue(p, "allowAllTransfers")) =>
                   /\ CountAt(i, "to") = 0 <=> Allowlisted(p, "allowedRecipients", a.to)
                   /\ ("allowedRecipients" \in DOMAIN p /\ p.allowedRecipients = <<AddrA>>) =>
                          (CountAt(i, "to") = 0 <=> a.to \in {AddrA, AddrAPadded})
                   /\ ("allowedRecipients" \in DOMAIN p /\ p.allowedRecipients = <<AddrAPadded, AddrB>>) =>
                          (CountAt(i, "to") = 0 <=> a.to \in {AddrA, AddrAPadded, AddrB})
            /\ (a.type = "swapJupiter" /\ ~FlagIsTrue(p, "allowAllSwaps")
                  /\ "allowedMints" \in DOMAIN p /\ p.allowedMints = <<MintAPadded, MintB>>) =>
                   /\ CountAt(i, "inputMint") = 0 <=> a.inputMint \in {MintA, MintAPadded, MintB}
                   /\ CountAt(i, "outputMint") = 0 <=> a.outputMint \in {MintA, MintAPadded, MintB}

\* the entry "a " admits the recipient "a", and the entry "a" the recipient "a "
C14_Witness ==
    /\ Validated
    /\ "allowedRecipients" \in DOMAIN opts.policy
    /\ ~FlagIsTrue(opts.policy, "allowAllTransfers")
    /\ \E i \in ActionIndices :
           /\ plan.actions[i + 1].type = "transferSol"
           /\ CountAt(i, "to") = 0
           /\ \/ opts.policy.allowedRecipients = <<AddrAPadded, AddrB>> /\ plan.actions[i + 1].to = AddrA
              \/ opts.policy.allowedRecipients = <<AddrA>> /\ plan.actions[i + 1].to = AddrAPadded

IsUnsupported(i) == plan.actions[i + 1].type \notin {"noop", "transferSol", "swapJupiter"}

\* the confirmation capability answered false for action i
WasDeclined(i) ==
    \E k \in 1..Len(trace) : IsConfirmEvent(trace[k]) /\ trace[k].i = i /\ trace[k].ph = "false"

\* C19 as stated: execute never goes past an action of unknown type, whatever
\* the confirmation capability answers for it: the loop index never exceeds
\* the index of such an action and the call never completes with one in the plan.
C19_NeverSkipsUnsupported ==
    \A i \in 0..(Len(plan.actions) - 1) :
        IsUnsupported(i) => /\ idx <= i
                            /\ pc # "completed"

\* C19, amended: an action of unknown type that the confirmation step lets
\* through makes execute fail at it with the 'Unsupported action' error, with
\* no collaborator call for it; execute goes past such an action only when
\* the confirmation capability declined it.
C19_UnsupportedFailsOnceConfirmed ==
    \A i \in 0..(Len(plan.actions) - 1) :
        IsUnsupported(i) =>
            /\ WasConfirmed(i) =>
                   /\ idx = i
                   /\ pc \in {"dispatch", "failed"}
                   /\ pc = "failed" => outcome = Throw(UnsupportedError)
            /\ idx > i => WasDeclined(i)
            /\ \A k \in 1..Len(trace) : IsCollaboratorEvent(trace[k]) => trace[k].i # i

\* execute has failed at an action of unknown type that the callback confirmed
C19_Witness ==
    /\ pc = "failed"
    /\ outcome = Throw(UnsupportedError)
    /\ IsUnsupported(idx)
    /\ \E k \in 1..Len(trace) : IsConfirmEvent(trace[k]) /\ trace[k].i = idx /\ trace[k].ph = "true"

\* C20: an agent without a confirm callback never calls a confirmation
\* capability and lets every action through: every action the loop has gone
\* past was let through and, when it is a transfer or a swap, ran its
\* collaborator to the end; a completed call returns one id per transfer or
\* swap of the plan.
C20_NoCallbackConfirmsAll ==
    ~("confirm" \in DOMAIN opts) =>
        /\ \A k \in 1..Len(trace) : IsConfirmEvent(trace[k]) => trace[k].ph = "default"
        /\ \A i \in 0..(Len(plan.actions) - 1) :
               i < idx => /\ WasConfirmed(i)
                          /\ IsEffectful(i) => WasCompleted(i)
        /\ pc = "awaiting" => \E k \in 1..Len(trace) : IsCollaboratorEvent(trace[k]) /\ trace[k].i = idx
        /\ pc = "completed" =>
               Len(outcome.v) = Cardinality({i \in 0..(Len(plan.actions) - 1) : IsEffectful(i)})

\* without a callback, a plan of a transfer and a swap has completed with two ids
C20_Witness ==
    /\ ~("confirm" \in DOMAIN opts)
    /\ pc = "completed"
    /\ \E i, j \in 0..(Len(plan.actions) - 1) :
           plan.actions[i + 1].type = "transferSol" /\ plan.actions[j + 1].type = "swapJupiter"
    /\ Len(outcome.v) = 2

----------------------------------------------------------------------------
(* Properties of proposePlan, checked under SpecPropose. *)

\* the value createJson returned to proposePlan, when it returned one
Proposal == trace[Len(trace)].value

CreateJsonReturned == trace # <<>> /\ trace[Len(trace)].op = "createJson" /\ trace[Len(trace)].ph = "ret"

\* C15: an agent without an inference collaborator answers proposePlan with a
\* plan that carries the caller's goal and exactly one noop action, whatever
\* maxActions is; no call is made and the call does not fail.
C15_NoClientFallback ==
    (~("anthropic" \in DOMAIN opts) /\ pc # "pending") =>
        /\ pc = "proposed"
        /\ outcome.kind = "return"
        /\ outcome.v.t = "object"
        /\ outcome.v.f.goal = JStr(args.goal)
        /\ outcome.v.f.actions.t = "array"
        /\ outcome.v.f.actions.items = <<JObj([type |-> JStr("noop")])>>
        /\ trace = <<>>

\* without a client and with maxActions 0, the caller's second goal came back
C15_Witness ==
    /\ ~("anthropic" \in DOMAIN opts)
    /\ pc = "proposed"
    /\ args = [goal |-> OtherGoal, maxActions |-> 0]
    /\ outcome.v.f.goal.s = OtherGoal

\* C16: when createJson returns an object whose actions is an array of n
\* entries, the actions of the returned plan are its first min(n, maxActions)
\* entries in their order, maxActions being 3 when the caller gave none.
C16_TruncatesToMaxActions ==
    ( /\ pc = "proposed"
      /\ CreateJsonReturned
      /\ Proposal.t = "object"
      /\ "actions" \in DOMAIN Proposal.f
      /\ Proposal.f.actions.t = "array" )
    => LET items == Proposal.f.actions.items
           m == IF "maxActions" \in DOMAIN args THEN args.maxActions ELSE 3
           kept == IF Len(items) <= m THEN Len(items) ELSE m
       IN  /\ outcome.kind = "return"
           /\ outcome.v.t = "object"
           /\ outcome.v.f.actions.t = "array"
           /\ Len(outcome.v.f.actions.items) = kept
           /\ \A k \in 1..kept : outcome.v.f.actions.items[k] = items[k]

\* four entries, the first and the last different, were cut to the first
\* three by the default, and to the first two by maxActions 2
C16_Witness ==
    /\ pc = "proposed"
    /\ CreateJsonReturned
    /\ Proposal.t = "object"
    /\ "actions" \in DOMAIN Proposal.f
    /\ Proposal.f.actions.t = "array"
    /\ Len(Proposal.f.actions.items) = 4
    /\ Proposal.f.actions.items[1] # Proposal.f.actions.items[4]
    /\ Proposal.f.actions.items[1] # Proposal.f.actions.items[2]
    /\ ~("maxActions" \in DOMAIN args)
    /\ Len(outcome.v.f.actions.items) = 3

\* the response held a text block, and its text is not the text of a JSON
\* object that has an array under `actions`
MalformedProposal ==
    /\ \E k \in 1..Len(trace) :
           /\ trace[k].op = "fetchMessages"
           /\ trace[k].ph = "ret"
           /\ \E b \in 1..Len(trace[k].blocks) :
                  /\ trace[k].blocks[b].type = "text"
                  /\ \A c \in 1..(b - 1) : trace[k].blocks[c].type # "text"
                  /\ LET v == trace[k].blocks[b].text.payload IN
                     \/ v.t # "object"
                     \/ ~("actions" \in DOMAIN v.f)
                     \/ v.f.actions.t # "array"

\* C17 as stated: a malformed proposal never reaches the caller as an error:
\* proposePlan returns a plan whose actions are a single noop.
C17_MalformedDegradesToNoop ==
    MalformedProposal =>
        /\ pc = "proposed"
        /\ outcome.kind = "return"
        /\ outcome.v.t \in {"object", "array"}
        /\ GetProp(outcome.v, "actions").t = "array"
        /\ GetProp(outcome.v, "actions").items = <<JObj([type |-> JStr("noop")])>>

IsString(v) == v.t = "string"

\* one of the three action variants of types.ts, with its required fields
IsActionVariant(e) ==
    /\ e.t = "object"
    /\ "type" \in DOMAIN e.f
    /\ IsString(e.f.type)
    /\ \/ e.f.type.s = "noop"
       \/ /\ e.f.type.s = "transferSol"
          /\ {"to", "lamports"} \subseteq DOMAIN e.f
          /\ IsString(e.f.to) /\ IsString(e.f.lamports)
       \/ /\ e.f.type.s = "swapJupiter"
          /\ {"inputMint", "outputMint", "amount"} \subseteq DOMAIN e.f
          /\ IsString(e.f.inputMint) /\ IsString(e.f.outputMint) /\ IsString(e.f.amount)

WellFormedPlan(v) ==
    /\ v.t = "object"
    /\ "goal" \in DOMAIN v.f
    /\ IsString(v.f.goal)
    /\ "actions" \in DOMAIN v.f
    /\ v.f.actions.t = "array"
    /\ \A k \in 1..Len(v.f.actions.items) : IsActionVariant(v.f.actions.items[k])

\* C18 as stated: every plan proposePlan returns is well-formed: an object,
\* not an array, with a goal and with actions that are each one of the three
\* variants with its fields.
C18_AlwaysWellFormed ==
    pc = "proposed" => WellFormedPlan(outcome.v)

----------------------------------------------------------------------------
(* Properties of the course of an execute call, checked under SpecLive and Spec. *)

Terminal == pc \in {"rejected", "completed", "failed"}
Executing == pc \in {"loop", "confirming", "dispatch", "awaiting"}

\* one step of the state machine Pending -> Validating -> {Rejected | Validated}
\* -> Executing(0..n-1) -> {Completed | Failed(i)}
StateMachineStep ==
    /\ ~Terminal
    /\ pc = "pending" => pc' \in {"rejected", "loop"}
    /\ pc' = "rejected" => pc = "pending"
    /\ pc' = "loop" => pc = "pending" \/ Executing
    /\ pc' = "failed" => Executing /\ idx' = idx /\ idx < Len(plan.actions)
    /\ pc' = "completed" =>
           /\ pc = "loop"
           /\ idx = Len(plan.actions)
           /\ outcome'.kind = "return"
           /\ outcome'.v = sigs
    /\ idx' = idx \/ idx' = idx + 1

\* C21 as stated: every step of an execute call is a step of that state
\* machine, the index moving by one at a time and nothing happening after a
\* terminal state, and the call eventually reaches Rejected, Completed or Failed.
C21_StateMachine == [][StateMachineStep]_vars /\ <>Terminal

IsNetworkEvent(e) == e.op \in NetworkCalls

\* the events of the network calls, in the order they happened
NetEvents == SelectSeq(trace, IsNetworkEvent)

\* the position of a call in the sequence of calls of its collaborator
StageIndex(stages, op) == CHOOSE k \in 1..Len(stages) : stages[k] = op

\* C22: the network events of an execute call alternate between the start of
\* a call and the end of that same call, so at most one call is in flight;
\* the next call to start is the next call of the same action (blockhash,
\* submission, settlement wait for a transfer; quote, swap build, submission,
\* blockhash, settlement wait for a swap), or the first call of a later
\* action once the last call of the earlier one has returned.
C22_OneCallInFlight ==
    LET ev == NetEvents IN
    \A k \in 1..Len(ev) :
        /\ k % 2 = 1 => ev[k].ph = "call"
        /\ k % 2 = 0 => /\ ev[k].ph \in {"ret", "err", "non2xx"}
                        /\ ev[k].op = ev[k - 1].op
                        /\ ev[k].i = ev[k - 1].i
        /\ (k % 2 = 1 /\ k = 1) =>
               StageIndex(StagesOf(plan.actions[ev[k].i + 1]), ev[k].op) = 1
        /\ (k % 2 = 1 /\ k >= 3) =>
               LET prev == ev[k - 2]
                   stagesPrev == StagesOf(plan.actions[prev.i + 1])
                   stagesHere == StagesOf(plan.actions[ev[k].i + 1])
               IN  /\ ev[k - 1].ph = "ret"
                   /\ \/ /\ ev[k].i = prev.i
                         /\ StageIndex(stagesHere, ev[k].op) = StageIndex(stagesPrev, prev.op) + 1
                      \/ /\ ev[k].i > prev.i
                         /\ StageIndex(stagesPrev, prev.op) = Len(stagesPrev)
                         /\ StageIndex(stagesHere, ev[k].op) = 1

\* a transfer and then a swap have both run all their network calls
C22_Witness ==
    /\ pc = "completed"
    /\ Len(plan.actions) = 2
    /\ plan.actions[1].type = "transferSol"
    /\ plan.actions[2].type = "swapJupiter"
    /\ Len(NetEvents) = 2 * (Len(TransferStages) + Len(SwapStages))

\* C23 as stated: under a policy that sets maxSlippageBps, every quote that
\* execute requests carries a slippage of at most maxSlippageBps, whether the
\* action gave the value or execute supplied its default.
C23_SlippageWithinPolicy ==
    ("policy" \in DOMAIN opts /\ "maxSlippageBps" \in DOMAIN opts.policy) =>
        \A k \in 1..Len(trace) :
            (trace[k].op = "getJupiterQuote" /\ trace[k].ph = "call") =>
                trace[k].slippageBps <= opts.policy.maxSlippageBps

\* C24: an agent without a policy never rejects a plan: its validation
\* returns the empty list, and every transfer or swap the confirmation step
\* let through and the loop went past has run its collaborator to the end,
\* also one that every policy of the model forbids.
C24_NoPolicyAllowsAll ==
    ~("policy" \in DOMAIN opts) =>
        /\ validate(opts, plan) = Return(<<>>)
        /\ pc # "rejected"
        /\ pc # "pending" => trace[1] = [op |-> "validate", ph |-> "ret", count |-> 0]
        /\ \A i \in 0..(Len(plan.actions) - 1) :
               (i < idx /\ EffectfulAndConfirmed(i)) => WasCompleted(i)
        /\ pc = "completed" =>
               Len(outcome.v) = Cardinality({i \in 0..(Len(plan.actions) - 1) : EffectfulAndConfirmed(i)})

\* without a policy, a transfer to a recipient on no allowlist, above every
\* limit, and a swap have both been confirmed by the callback and completed
C24_Witness ==
    /\ ~("policy" \in DOMAIN opts)
    /\ "confirm" \in DOMAIN opts
    /\ pc = "completed"
    /\ Len(plan.actions) = 2
    /\ plan.actions[1] = TransferSol(AddrB, NatToStr(LimitM + 1))
    /\ plan.actions[2].type = "swapJupiter"
    /\ Len(outcome.v) = 2

\* the positions in the history at which the confirm callback was called for action i
ConfirmCallsFor(i) ==
    {k \in 1..Len(trace) : IsConfirmEvent(trace[k]) /\ trace[k].ph = "call" /\ trace[k].i = i}

\* the validation of the call returned no violation: the loop was entered
PassedValidation == trace # <<>> /\ trace[1] = [op |-> "validate", ph |-> "ret", count |-> 0]

\* the loop has come to action i and has started on it
Reached(i) == i < idx \/ (i = idx /\ pc \in {"confirming", "dispatch", "awaiting", "failed"})

\* before position k of the history, action i was declined, or confirmed as
\* a noop, or ran its collaborator to the end
SettledBefore(i, k) ==
    \E j \in 1..(k - 1) :
        /\ trace[j].op \in {"confirm", "transferSol", "executeJupiterSwap"}
        /\ trace[j].i = i
        /\ \/ IsConfirmEvent(trace[j]) /\ trace[j].ph = "false"
           \/ IsConfirmEvent(trace[j]) /\ trace[j].ph = "true" /\ plan.actions[i + 1].type = "noop"
           \/ trace[j].op \in {"transferSol", "executeJupiterSwap"} /\ trace[j].ph = "ret"

\* C25: in an execute call of an agent with a confirm callback that passed
\* validation, the callback has been called exactly once for every action the
\* loop has reached, noop actions included, and for no other; the calls are
\* in plan order; every collaborator call for an action comes after the
\* callback's call for it; and the callback is called for action i+1 only
\* after action i was declined, confirmed as a noop, or completed.
C25_ConfirmOncePerAction ==
    ("confirm" \in DOMAIN opts /\ PassedValidation) =>
        /\ \A i \in 0..(Len(plan.actions) - 1) :
               Cardinality(ConfirmCallsFor(i)) = IF Reached(i) THEN 1 ELSE 0
        /\ \A j, k \in 1..Len(trace) :
               ( /\ j < k
                 /\ IsConfirmEvent(trace[j]) /\ trace[j].ph = "call"
                 /\ IsConfirmEvent(trace[k]) /\ trace[k].ph = "call" )
               => trace[j].i < trace[k].i
        /\ \A k \in 1..Len(trace) :
               IsCollaboratorEvent(trace[k]) => \E j \in ConfirmCallsFor(trace[k].i) : j < k
        /\ \A k \in 1..Len(trace) :
               (IsConfirmEvent(trace[k]) /\ trace[k].ph = "call" /\ trace[k].i > 0)
               => SettledBefore(trace[k].i - 1, k)

\* a noop and then a transfer or swap were both put to the callback, and the
\* call completed with one id
C25_Witness ==
    /\ "confirm" \in DOMAIN opts
    /\ pc = "completed"
    /\ Len(plan.actions) = 2
    /\ plan.actions[1].type = "noop"
    /\ IsEffectful(1)
    /\ Cardinality(ConfirmCallsFor(0)) = 1
    /\ Cardinality(ConfirmCallsFor(1)) = 1
    /\ Len(outcome.v) = 1

====
